---- MODULE Spec2Model ----
(***************************************************************************)
(* A model of inventory_system.py: an inventory dictionary (item name ->   *)
(* quantity), a log list, and one JSON file, driven by calls of add_item,  *)
(* remove_item, get_qty, check_low_items, load_data, save_data and         *)
(* print_data.                                                             *)
(*                                                                         *)
(* Python values that reach the functions as arguments are records         *)
(* [t, s, n]: t = "str" carries the text s, t = "int" carries the number n.*)
(* A dict is a sequence of [k, v] records in insertion order (Python dicts *)
(* keep insertion order); keys are strings, values are Python ints.        *)
(* The text of a file is a sequence of characters; an item name is kept as *)
(* one element of that sequence.                                           *)
(***************************************************************************)
EXTENDS Integers, Sequences, FiniteSets, TLC

VARIABLES
    stock_data,   \* the inventory dict of main(), line 156
    logs,         \* the log list of main(), line 157
    file,         \* the file "inventory.json": [state, text]
    call,         \* the call just made: [op, item, qty, logged, path, threshold]
    out,          \* the lines the call printed
    ret,          \* the value the call returned
    exc,          \* the exception that left the call, "none" when it returned
    saved,        \* the dict the last successful save_data wrote to "inventory.json"
    ncalls        \* how many calls the script has made

vars == <<stock_data, logs, file, call, out, ret, exc, saved, ncalls>>

-----------------------------------------------------------------------------
(* Bounds and inputs *)

MaxCalls == 5

DefaultThreshold == 5

PyStr(s) == [t |-> "str", s |-> s, n |-> 0]
PyInt(n) == [t |-> "int", s |-> "", n |-> n]

ItemNames == {"apple", "banana"}
ItemArgs == {PyStr("apple"), PyStr("banana"), PyStr(""), PyInt(123)}
QtyArgs == {PyInt(-1), PyInt(2), PyStr("ten")}
DefaultQty == PyInt(0)
NonNegQtyArgs == {PyInt(0), PyInt(1), PyInt(2)}
Thresholds == {DefaultThreshold, 2}
DefaultFile == "inventory.json"
LoadPaths == {DefaultFile, "missing.json", "corrupt.json", "list.json", "locked.json"}
SavePaths == {DefaultFile, "locked.json"}

-----------------------------------------------------------------------------
(* Python built-ins the functions rely on *)

\* str(x) inside an f-string
format(x) == IF x.t = "int" THEN ToString(x.n) ELSE x.s

\* the check of line 30 without its "or not item"
is_valid_item_any_str(item) == item.t = "str"

\* isinstance(item, str) and bool(item): line 30
is_valid_item(item) == item.t = "str" /\ item.s # ""

\* isinstance(qty, (int, float)): line 33
is_number(qty) == qty.t = "int"

\* key in d
dict_contains(d, key) ==
    key.t = "str" /\ \E i \in 1..Len(d) : d[i].k = key.s

\* d.get(key, default)
dict_get(d, key, default) ==
    IF dict_contains(d, key)
    THEN d[CHOOSE i \in 1..Len(d) : d[i].k = key.s].v
    ELSE default

\* d[key] = value: an existing key keeps its position, a new key goes last
dict_set(d, key, value) ==
    IF dict_contains(d, key)
    THEN [i \in 1..Len(d) |-> IF d[i].k = key.s THEN [k |-> key.s, v |-> value] ELSE d[i]]
    ELSE Append(d, [k |-> key.s, v |-> value])

\* del d[key]
dict_del(d, key) == SelectSeq(d, LAMBDA e : e.k # key.s)

RECURSIVE dict_update(_, _, _)
\* d.update(other): other's items in order, from the i-th
dict_update(d, other, i) ==
    IF i > Len(other) THEN d
    ELSE dict_update(dict_set(d, PyStr(other[i].k), other[i].v), other, i + 1)

-----------------------------------------------------------------------------
(* json.dumps(obj, indent=4) and json.loads(text), on the characters *)

QUOTE == "\""
NL == "\n"
INDENT == "    "
DigitChars == <<"0", "1", "2", "3", "4", "5", "6", "7", "8", "9">>
IsDigit(c) == \E d \in 1..10 : DigitChars[d] = c
DigitValue(c) == (CHOOSE d \in 1..10 : DigitChars[d] = c) - 1
Whitespace == {" ", NL, "\t", "\r", INDENT}

RECURSIVE nat_repr(_)
nat_repr(n) ==
    IF n < 10 THEN <<DigitChars[n + 1]>>
    ELSE nat_repr(n \div 10) \o <<DigitChars[(n % 10) + 1]>>

\* the decimal text of a Python int
int_repr(n) == IF n < 0 THEN <<"-">> \o nat_repr(-n) ELSE nat_repr(n)

RECURSIVE dumps_items(_, _)
\* the members of a non-empty object from the i-th: one per line, indented
dumps_items(d, i) ==
    <<INDENT, QUOTE, d[i].k, QUOTE, ":", " ">> \o int_repr(d[i].v)
       \o (IF i < Len(d) THEN <<",", NL>> \o dumps_items(d, i + 1) ELSE <<>>)

json_dumps(d) ==
    IF Len(d) = 0 THEN <<"{", "}">>
    ELSE <<"{", NL>> \o dumps_items(d, 1) \o <<NL, "}">>

\* a parse result: ok is FALSE for json.JSONDecodeError
Fail == [ok |-> FALSE, kind |-> "", dict |-> <<>>, list |-> <<>>, n |-> 0, s |-> "", next |-> 0]
ParsedInt(n, next) == [Fail EXCEPT !.ok = TRUE, !.kind = "int", !.n = n, !.next = next]
ParsedStr(s, next) == [Fail EXCEPT !.ok = TRUE, !.kind = "str", !.s = s, !.next = next]
ParsedDict(d, next) == [Fail EXCEPT !.ok = TRUE, !.kind = "dict", !.dict = d, !.next = next]
ParsedList(l, next) == [Fail EXCEPT !.ok = TRUE, !.kind = "list", !.list = l, !.next = next]

\* the character at position i, "" past the end
At(t, i) == IF i >= 1 /\ i <= Len(t) THEN t[i] ELSE ""

RECURSIVE skip_ws(_, _)
skip_ws(t, i) == IF At(t, i) \in Whitespace THEN skip_ws(t, i + 1) ELSE i

RECURSIVE scan_digits(_, _, _)
scan_digits(t, i, acc) ==
    IF IsDigit(At(t, i)) THEN scan_digits(t, i + 1, acc * 10 + DigitValue(At(t, i)))
    ELSE [n |-> acc, next |-> i]

\* number: -? (0 | [1-9][0-9]*)
parse_int(t, i) ==
    LET neg == At(t, i) = "-"
        j   == IF neg THEN i + 1 ELSE i
    IN  IF ~IsDigit(At(t, j)) THEN Fail
        ELSE IF At(t, j) = "0" THEN ParsedInt(0, j + 1)
        ELSE LET r == scan_digits(t, j, 0)
             IN  ParsedInt(IF neg THEN -r.n ELSE r.n, r.next)

\* string: " name " or ""
parse_string(t, i) ==
    IF At(t, i) # QUOTE THEN Fail
    ELSE IF At(t, i + 1) = QUOTE THEN ParsedStr("", i + 2)
    ELSE IF At(t, i + 1) # "" /\ At(t, i + 2) = QUOTE THEN ParsedStr(At(t, i + 1), i + 3)
    ELSE Fail

RECURSIVE parse_members(_, _, _)
\* string : number, then "," and more members or "}"
parse_members(t, i, acc) ==
    LET key == parse_string(t, i)
        c   == skip_ws(t, key.next)
        val == parse_int(t, skip_ws(t, c + 1))
        e   == skip_ws(t, val.next)
        d   == dict_set(acc, PyStr(key.s), val.n)
    IN  IF ~key.ok \/ At(t, c) # ":" THEN Fail
        ELSE IF ~val.ok THEN Fail
        ELSE IF At(t, e) = "}" THEN ParsedDict(d, e + 1)
        ELSE IF At(t, e) = "," THEN parse_members(t, skip_ws(t, e + 1), d)
        ELSE Fail

parse_object(t, i) ==
    LET j == skip_ws(t, i + 1)
    IN  IF At(t, j) = "}" THEN ParsedDict(<<>>, j + 1)
        ELSE parse_members(t, j, <<>>)

RECURSIVE parse_elements(_, _, _)
parse_elements(t, i, acc) ==
    LET val == parse_int(t, i)
        e   == skip_ws(t, val.next)
    IN  IF ~val.ok THEN Fail
        ELSE IF At(t, e) = "]" THEN ParsedList(Append(acc, val.n), e + 1)
        ELSE IF At(t, e) = "," THEN parse_elements(t, skip_ws(t, e + 1), Append(acc, val.n))
        ELSE Fail

parse_array(t, i) ==
    LET j == skip_ws(t, i + 1)
    IN  IF At(t, j) = "]" THEN ParsedList(<<>>, j + 1)
        ELSE parse_elements(t, j, <<>>)

\* objects of numbers, arrays of numbers, numbers and strings: the JSON the
\* files of this model hold
parse_value(t, i) ==
    IF At(t, i) = "{" THEN parse_object(t, i)
    ELSE IF At(t, i) = "[" THEN parse_array(t, i)
    ELSE IF At(t, i) = QUOTE THEN parse_string(t, i)
    ELSE parse_int(t, i)

\* json.loads: one value, then nothing but whitespace ("Extra data" otherwise)
json_loads(t) ==
    LET r == parse_value(t, skip_ws(t, 1))
    IN  IF ~r.ok THEN Fail
        ELSE IF skip_ws(t, r.next) <= Len(t) THEN Fail
        ELSE r

-----------------------------------------------------------------------------
(* The files load_data and save_data are given *)

Missing == [state |-> "missing", text |-> <<>>]
Denied == [state |-> "denied", text |-> <<>>]
Text(t) == [state |-> "ok", text |-> t]

\* open(path, "r").read(): "inventory.json" is the file the program writes;
\* the other paths hold what the program never changes
read_file(f, path) ==
    CASE path = DefaultFile -> f
      [] path = "missing.json" -> Missing
      [] path = "corrupt.json" -> Text(<<"{", QUOTE, "apple", QUOTE>>)
      [] path = "list.json" -> Text(<<"[", "1", ",", " ", "2", "]">>)
      [] OTHER -> Denied

\* open(path, "w") succeeds
writable(path) == path = DefaultFile

-----------------------------------------------------------------------------
(* The functions of inventory_system.py: each maps the objects it is given *)
(* and its arguments to what it leaves behind                              *)

None == [kind |-> "None", n |-> 0, names |-> <<>>]
Returned(sd, lg, f, o, rv) ==
    [stock_data |-> sd, logs |-> lg, file |-> f, out |-> o, ret |-> rv, exc |-> "none"]
Raised(sd, lg, f, e) ==
    [stock_data |-> sd, logs |-> lg, file |-> f, out |-> <<>>, ret |-> None, exc |-> e]

\* the log entry of line 41, without its timestamp
log_entry(item, qty) == [qty |-> qty.n, item |-> item.s]

\* the lines the functions print
msg_bad_item(item) == "Error: Item name '" \o format(item) \o "' is not a valid string."
msg_bad_qty(item, qty) ==
    "Error: Quantity '" \o format(qty) \o "' for item '" \o format(item) \o "' is not a number."
msg_negative(item, qty) ==
    "Warning: Adding negative quantity (" \o format(qty) \o ") for '" \o format(item) \o "'."
msg_absent(item) == "Info: Item '" \o format(item) \o "' not in stock, cannot remove."
msg_invalid_qty(item, qty) ==
    "Error: Invalid quantity '" \o format(qty) \o "' for item '" \o format(item) \o "'."
msg_loaded(path) == "Data loaded from " \o path \o "."
msg_not_found(path) == "Warning: " \o path \o " not found. Starting with an empty inventory."
msg_not_json(path) == "Error: Could not decode JSON from " \o path \o "."
msg_load_error(path) ==
    "Error loading file " \o path \o ": [Errno 13] Permission denied: '" \o path \o "'"
msg_saved(path) == "Data saved to " \o path \o "."
msg_save_error(path) ==
    "Error saving file " \o path \o ": [Errno 13] Permission denied: '" \o path \o "'"

\* add_item that stores qty instead of adding it to the stored quantity
add_item_overwrite(sd, lg, f, item, qty) ==
    IF ~is_valid_item(item) THEN Returned(sd, lg, f, <<msg_bad_item(item)>>, None)
    ELSE IF ~is_number(qty) THEN Returned(sd, lg, f, <<msg_bad_qty(item, qty)>>, None)
    ELSE Returned(dict_set(sd, item, qty.n),
                  Append(lg, log_entry(item, qty)),
                  f,
                  IF qty.n < 0 THEN <<msg_negative(item, qty)>> ELSE <<>>,
                  None)

\* add_item that writes its log entry before it validates
add_item_log_first(sd, lg, f, item, qty) ==
    IF ~is_valid_item(item)
    THEN Returned(sd, Append(lg, log_entry(item, qty)), f, <<msg_bad_item(item)>>, None)
    ELSE IF ~is_number(qty)
    THEN Returned(sd, Append(lg, log_entry(item, qty)), f, <<msg_bad_qty(item, qty)>>, None)
    ELSE Returned(dict_set(sd, item, dict_get(sd, item, 0) + qty.n),
                  Append(lg, log_entry(item, qty)),
                  f,
                  IF qty.n < 0 THEN <<msg_negative(item, qty)>> ELSE <<>>,
                  None)

\* lines 15-41
add_item(sd, lg, f, item, qty) ==
    IF ~is_valid_item(item) THEN Returned(sd, lg, f, <<msg_bad_item(item)>>, None)
    ELSE IF ~is_number(qty) THEN Returned(sd, lg, f, <<msg_bad_qty(item, qty)>>, None)
    ELSE Returned(dict_set(sd, item, dict_get(sd, item, 0) + qty.n),
                  Append(lg, log_entry(item, qty)),
                  f,
                  IF qty.n < 0 THEN <<msg_negative(item, qty)>> ELSE <<>>,
                  None)

\* remove_item that deletes the key only below 0
remove_item_keep_zero(sd, lg, f, item, qty) ==
    IF dict_contains(sd, item)
    THEN IF ~is_number(qty)
         THEN Returned(sd, lg, f, <<msg_invalid_qty(item, qty)>>, None)
         ELSE LET left == dict_get(sd, item, 0) - qty.n
              IN  Returned(IF left < 0 THEN dict_del(sd, item) ELSE dict_set(sd, item, left),
                           lg, f, <<>>, None)
    ELSE Returned(sd, lg, f, <<msg_absent(item)>>, None)

\* remove_item that takes an absent item's quantity as 0 and decrements it
remove_item_from_zero(sd, lg, f, item, qty) ==
    IF item.t # "str" THEN Returned(sd, lg, f, <<msg_absent(item)>>, None)
    ELSE IF ~is_number(qty) THEN Returned(sd, lg, f, <<msg_invalid_qty(item, qty)>>, None)
    ELSE LET left == dict_get(sd, item, 0) - qty.n
         IN  Returned(IF left <= 0 THEN dict_del(sd, item) ELSE dict_set(sd, item, left),
                      lg, f, <<>>, None)

\* lines 44-67
remove_item(sd, lg, f, item, qty) ==
    IF dict_contains(sd, item)
    THEN IF ~is_number(qty)
         THEN \* int - str raises TypeError before the store: lines 58, 66
              Returned(sd, lg, f, <<msg_invalid_qty(item, qty)>>, None)
         ELSE LET left == dict_get(sd, item, 0) - qty.n
              IN  Returned(IF left <= 0 THEN dict_del(sd, item) ELSE dict_set(sd, item, left),
                           lg, f, <<>>, None)
    ELSE Returned(sd, lg, f, <<msg_absent(item)>>, None)

\* lines 70-81
get_qty(sd, item) == dict_get(sd, item, 0)

\* check_low_items with <= for <
check_low_items_le(sd, threshold) ==
    LET low == SelectSeq(sd, LAMBDA e : e.v <= threshold)
    IN  [i \in 1..Len(low) |-> low[i].k]

\* lines 138-149
check_low_items(sd, threshold) ==
    LET low == SelectSeq(sd, LAMBDA e : e.v < threshold)
    IN  [i \in 1..Len(low) |-> low[i].k]

\* load_data without the clear() of line 95
load_data_no_clear(sd, lg, f, path) ==
    LET src == read_file(f, path)
        data == json_loads(src.text)
    IN  IF src.state = "missing" THEN Returned(sd, lg, f, <<msg_not_found(path)>>, None)
        ELSE IF src.state = "denied" THEN Returned(sd, lg, f, <<msg_load_error(path)>>, None)
        ELSE IF ~data.ok THEN Returned(sd, lg, f, <<msg_not_json(path)>>, None)
        ELSE IF data.kind = "int" \/ (data.kind = "list" /\ Len(data.list) > 0)
        THEN Raised(sd, lg, f, "TypeError")
        ELSE IF data.kind = "str" /\ data.s # ""
        THEN Raised(sd, lg, f, "ValueError")
        ELSE Returned(dict_update(sd, data.dict, 1), lg, f, <<msg_loaded(path)>>, None)

\* lines 84-103
load_data(sd, lg, f, path) ==
    LET src == read_file(f, path)
        data == json_loads(src.text)
    IN  IF src.state = "missing" THEN Returned(sd, lg, f, <<msg_not_found(path)>>, None)
        ELSE IF src.state = "denied" THEN Returned(sd, lg, f, <<msg_load_error(path)>>, None)
        ELSE IF ~data.ok THEN Returned(sd, lg, f, <<msg_not_json(path)>>, None)
        \* line 95 has cleared the dict when update(), line 96, raises
        ELSE IF data.kind = "int" \/ (data.kind = "list" /\ Len(data.list) > 0)
        THEN Raised(<<>>, lg, f, "TypeError")
        ELSE IF data.kind = "str" /\ data.s # ""
        THEN Raised(<<>>, lg, f, "ValueError")
        ELSE Returned(dict_update(<<>>, data.dict, 1), lg, f, <<msg_loaded(path)>>, None)

\* lines 106-119
save_data(sd, lg, f, path) ==
    IF writable(path)
    THEN Returned(sd, lg, Text(json_dumps(sd)), <<msg_saved(path)>>, None)
    ELSE Returned(sd, lg, f, <<msg_save_error(path)>>, None)

\* lines 122-135
print_data(sd) ==
    <<"", "--- Items Report ---">>
       \o (IF Len(sd) = 0 THEN <<"Inventory is empty.">>
           ELSE [i \in 1..Len(sd) |-> sd[i].k \o " -> " \o ToString(sd[i].v)])
       \o <<"--------------------", "">>

-----------------------------------------------------------------------------
(* The script: calls in any order, each on the objects main() owns *)

NoArg == [t |-> "None", s |-> "", n |-> 0]
Call(op, item, qty, logged, path, threshold) ==
    [op |-> op, item |-> item, qty |-> qty, logged |-> logged, path |-> path,
     threshold |-> threshold]

Init ==
    /\ stock_data = <<>>
    /\ logs = <<>>
    /\ file = Missing
    /\ call = Call("main", NoArg, NoArg, FALSE, "", 0)
    /\ out = <<>>
    /\ ret = None
    /\ exc = "none"
    /\ saved = <<>>
    /\ ncalls = 0

\* a call is made while the script runs: no exception has ended it
Running == exc = "none" /\ ncalls < MaxCalls

Leaves(r, c) ==
    /\ stock_data' = r.stock_data
    /\ file' = r.file
    /\ out' = r.out
    /\ ret' = r.ret
    /\ exc' = r.exc
    /\ call' = c
    /\ ncalls' = ncalls + 1

\* add_item(stock_data, item, qty, logs), or add_item(stock_data, item, qty)
\* whose logs is a fresh list (lines 26-27) nobody else sees
AddItemCall(item, qty, logged) ==
    /\ LET r == add_item(stock_data, IF logged THEN logs ELSE <<>>, file, item, qty)
       IN  /\ Leaves(r, Call("add_item", item, qty, logged, "", 0))
           /\ logs' = IF logged THEN r.logs ELSE logs
    /\ saved' = saved

\* add_item(stock_data, item, qty, logs), as main() calls it
AddItem == \E item \in ItemArgs, qty \in QtyArgs :
    /\ Running
    /\ AddItemCall(item, qty, TRUE)

\* add_item(stock_data, item): qty=0 and logs=None, the defaults of line 15
AddItemDefaults == \E item \in ItemArgs :
    /\ Running
    /\ AddItemCall(item, DefaultQty, FALSE)

RemoveItem == \E item \in ItemArgs, qty \in QtyArgs :
    /\ Running
    /\ LET r == remove_item(stock_data, logs, file, item, qty)
       IN  /\ Leaves(r, Call("remove_item", item, qty, FALSE, "", 0))
           /\ logs' = r.logs
    /\ saved' = saved

GetQty == \E item \in ItemArgs :
    /\ Running
    /\ Leaves(Returned(stock_data, logs, file, <<>>,
                       [None EXCEPT !.kind = "int", !.n = get_qty(stock_data, item)]),
              Call("get_qty", item, NoArg, FALSE, "", 0))
    /\ logs' = logs
    /\ saved' = saved

CheckLowItems == \E threshold \in Thresholds :
    /\ Running
    /\ Leaves(Returned(stock_data, logs, file, <<>>,
                 [None EXCEPT !.kind = "list", !.names = check_low_items(stock_data, threshold)]),
              Call("check_low_items", NoArg, NoArg, FALSE, "", threshold))
    /\ logs' = logs
    /\ saved' = saved

LoadData == \E path \in LoadPaths :
    /\ Running
    /\ LET r == load_data(stock_data, logs, file, path)
       IN  /\ Leaves(r, Call("load_data", NoArg, NoArg, FALSE, path, 0))
           /\ logs' = r.logs
    /\ saved' = saved

SaveData == \E path \in SavePaths :
    /\ Running
    /\ LET r == save_data(stock_data, logs, file, path)
       IN  /\ Leaves(r, Call("save_data", NoArg, NoArg, FALSE, path, 0))
           /\ logs' = r.logs
    /\ saved' = IF writable(path) THEN stock_data ELSE saved

PrintData ==
    /\ Running
    /\ Leaves(Returned(stock_data, logs, file, print_data(stock_data), None),
              Call("print_data", NoArg, NoArg, FALSE, "", 0))
    /\ logs' = logs
    /\ saved' = saved

Next == AddItem \/ AddItemDefaults \/ RemoveItem \/ GetQty \/ CheckLowItems \/ LoadData \/ SaveData \/ PrintData

Spec == Init /\ [][Next]_vars

-----------------------------------------------------------------------------
(* Narrower scripts *)

ValidItemArgs == {PyStr("apple"), PyStr("banana")}

\* add_item with a non-empty name and a quantity >= 0, logs passed
AddItemValid == \E item \in ValidItemArgs, qty \in NonNegQtyArgs :
    /\ Running
    /\ AddItemCall(item, qty, TRUE)

\* only valid additions and queries, from the empty inventory
NextAdd == AddItemValid \/ GetQty
SpecAdd == Init /\ [][NextAdd]_vars

\* only add_item and remove_item, from the empty inventory
NextMem == AddItem \/ AddItemDefaults \/ RemoveItem
SpecMem == Init /\ [][NextMem]_vars

\* check_low_items on any inventory of up to two items
LowQtys == {2, 3, 5, 10}
LowStocks ==
    {<<>>}
    \cup {<<[k |-> a, v |-> x]>> : a \in ItemNames, x \in LowQtys}
    \cup {<<[k |-> a, v |-> x], [k |-> b, v |-> y]>> :
            a \in ItemNames, b \in ItemNames, x \in LowQtys, y \in LowQtys}
InitLow ==
    /\ stock_data \in {d \in LowStocks : Len(d) < 2 \/ d[1].k # d[2].k}
    /\ logs = <<>>
    /\ file = Missing
    /\ call = Call("main", NoArg, NoArg, FALSE, "", 0)
    /\ out = <<>>
    /\ ret = None
    /\ exc = "none"
    /\ saved = <<>>
    /\ ncalls = 0
NextLow == CheckLowItems
SpecLow == InitLow /\ [][NextLow]_vars

-----------------------------------------------------------------------------
(* Properties *)

\* a valid add_item call: a non-empty text name and a
\* numeric quantity
ValidAdd(c) == c.item.t = "str" /\ c.item.s # "" /\ c.qty.t = "int"

\* the keys of a dict
Keys(d) == {d[i].k : i \in 1..Len(d)}

\* two dicts hold the same keys with the same values
SameMapping(d, e) ==
    /\ Keys(d) = Keys(e)
    /\ \A k \in Keys(d) : dict_get(d, PyStr(k), 0) = dict_get(e, PyStr(k), 0)

RECURSIVE SumAdded(_, _)
\* the sum of the quantities the log records for a name
SumAdded(lg, name) ==
    IF Len(lg) = 0 THEN 0
    ELSE (IF lg[1].item = name THEN lg[1].qty ELSE 0) + SumAdded(Tail(lg), name)

LoadedMessage == <<"Data loaded from inventory.json.">>

\* C1: from an empty inventory, after only add_item calls with a non-empty
\* name and a quantity >= 0, get_qty of a name is the sum of the quantities
\* added under it, and 0 for a name never added; a get_qty call returns it.
C1_AddThenGet ==
    /\ \A item \in ItemArgs :
          get_qty(stock_data, item) = (IF item.t = "str" THEN SumAdded(logs, item.s) ELSE 0)
    /\ call.op = "get_qty" =>
          /\ exc = "none"
          /\ ret.kind = "int"
          /\ ret.n = (IF call.item.t = "str" THEN SumAdded(logs, call.item.s) ELSE 0)

\* two additions under one name have been summed by a get_qty call
C1_Witness ==
    /\ call.op = "get_qty"
    /\ Len(logs) = 2
    /\ logs[1].item = call.item.s /\ logs[2].item = call.item.s
    /\ logs[1].qty = 1 /\ logs[2].qty = 2
    /\ ret.n = 3

\* C2: remove_item(name, qty) with a numeric qty on a present item of
\* quantity q leaves q - qty when that is > 0 and deletes the key when it is
\* <= 0 (get_qty then returns 0); no other key changes.
C2_RemoveDecrements ==
    [][(call'.op = "remove_item" /\ call'.qty.t = "int" /\ call'.item.t = "str"
            /\ call'.item.s \in Keys(stock_data))
        => LET name == call'.item
               left == get_qty(stock_data, name) - call'.qty.n
           IN  /\ exc' = "none"
               /\ left > 0 => (name.s \in Keys(stock_data') /\ get_qty(stock_data', name) = left)
               /\ left <= 0 => (name.s \notin Keys(stock_data') /\ get_qty(stock_data', name) = 0)
               /\ \A k \in (Keys(stock_data) \cup Keys(stock_data')) \ {name.s} :
                     /\ k \in Keys(stock_data) /\ k \in Keys(stock_data')
                     /\ get_qty(stock_data', PyStr(k)) = get_qty(stock_data, PyStr(k))
      ]_vars

\* remove_item has deleted a present item and left the other one in place
C2_Witness ==
    /\ call.op = "remove_item"
    /\ call.qty.t = "int"
    /\ out = <<>>
    /\ call.item.s \notin Keys(stock_data)
    /\ Len(stock_data) = 1

\* C3 as stated: every stored quantity is >= 0, and no key holds a quantity
\* that has reached <= 0.
C3_QuantitiesPositive ==
    \A i \in 1..Len(stock_data) : stock_data[i].v >= 0 /\ ~(stock_data[i].v <= 0)

\* C4: add_item with a name that is not a non-empty string, or a quantity
\* that is not a number, changes neither the inventory nor the log, and
\* returns normally.
C4_InvalidAddNoMutation ==
    [][(call'.op = "add_item" /\ ~ValidAdd(call'))
        => (stock_data' = stock_data /\ logs' = logs /\ file' = file /\ exc' = "none")
      ]_vars

\* add_item has refused the empty name on a non-empty inventory with a log
C4_Witness ==
    /\ call.op = "add_item"
    /\ call.item = PyStr("")
    /\ call.logged
    /\ out = <<"Error: Item name '' is not a valid string.">>
    /\ Len(stock_data) > 0
    /\ Len(logs) > 0

\* C5 as stated: after load_data of a missing file or of malformed JSON the
\* inventory is empty, and no exception leaves the call.
C5_LoadFailureEmpties ==
    (call.op = "load_data"
        /\ LET src == read_file(file, call.path)
           IN  src.state = "missing" \/ (src.state = "ok" /\ ~json_loads(src.text).ok))
    => (stock_data = <<>> /\ exc = "none")

\* C6: load_data of the path save_data wrote leaves the inventory equal to
\* the saved mapping: the same keys with the same values, whatever the
\* inventory held before.
C6_SaveLoadRoundTrip ==
    (call.op = "load_data" /\ call.path = DefaultFile /\ file.state = "ok")
    => (exc = "none" /\ out = LoadedMessage /\ SameMapping(stock_data, saved))

\* load_data has run after add, save, add of another item: the saved mapping
\* holds one item, the log two, and the inventory is the saved one
C6_Witness ==
    /\ call.op = "load_data" /\ call.path = DefaultFile
    /\ out = LoadedMessage
    /\ ncalls = 4
    /\ Len(logs) = 2 /\ logs[1].item # logs[2].item
    /\ Len(saved) = 1 /\ saved[1].v < 0
    /\ stock_data = saved

\* C7: check_low_items returns exactly the names whose quantity is strictly
\* below the threshold, each once, in the inventory's order, and leaves the
\* inventory as it was; on {apple: 10, banana: 3} with threshold 5 it
\* returns [banana].
C7_CheckLowItems ==
    [][call'.op = "check_low_items"
        => LET names == ret'.names
               th == call'.threshold
           IN  /\ stock_data' = stock_data
               /\ exc' = "none"
               /\ ret'.kind = "list"
               /\ {names[i] : i \in 1..Len(names)}
                     = {stock_data[i].k : i \in {j \in 1..Len(stock_data) : stock_data[j].v < th}}
               /\ \A i, j \in 1..Len(names) : i # j => names[i] # names[j]
               /\ \A i \in 1..Len(stock_data) :
                     stock_data[i].v = th => \A j \in 1..Len(names) : names[j] # stock_data[i].k
               /\ (stock_data = <<[k |-> "apple", v |-> 10], [k |-> "banana", v |-> 3]>>
                     /\ th = DefaultThreshold) => names = <<"banana">>
      ]_vars

\* check_low_items(5) has returned [banana] on {apple: 10, banana: 3}
C7_Witness ==
    /\ call.op = "check_low_items"
    /\ call.threshold = DefaultThreshold
    /\ stock_data = <<[k |-> "apple", v |-> 10], [k |-> "banana", v |-> 3]>>
    /\ ret.names = <<"banana">>

\* C8: remove_item of a name that is not a key leaves the inventory as it
\* was, for any qty argument, and returns normally.
C8_RemoveAbsentNoOp ==
    [][(call'.op = "remove_item"
            /\ ~(call'.item.t = "str" /\ call'.item.s \in Keys(stock_data)))
        => (stock_data' = stock_data /\ logs' = logs /\ file' = file /\ exc' = "none")
      ]_vars

\* remove_item has reported an absent item on a non-empty inventory
C8_Witness ==
    /\ call.op = "remove_item"
    /\ call.item = PyStr("banana")
    /\ out = <<"Info: Item 'banana' not in stock, cannot remove.">>
    /\ Len(stock_data) > 0

\* C9 as stated: no call lets an exception reach the caller.
C9_NoExceptionEscapes == exc = "none"

\* C10: an add_item call given the log appends exactly one entry, its own,
\* at the end when it passes validation and none when it does not; every
\* other call leaves the log as it was; what save_data writes is the
\* inventory alone.
C10_LogAppendOnly ==
    [][/\ (call'.op = "add_item" /\ call'.logged /\ ValidAdd(call'))
            => logs' = Append(logs, [qty |-> call'.qty.n, item |-> call'.item.s])
       /\ ~(call'.op = "add_item" /\ call'.logged /\ ValidAdd(call'))
            => logs' = logs
       /\ (call'.op = "save_data" /\ file' # file)
            => LET written == json_loads(file'.text)
               IN  written.ok /\ written.kind = "dict" /\ written.dict = stock_data
      ]_vars

\* two valid logged additions and one refused one: the log holds the two,
\* in call order
C10_Witness ==
    /\ call.op = "add_item" /\ call.logged /\ ValidAdd(call)
    /\ ncalls = 3
    /\ Len(logs) = 2
    /\ logs[2] = [qty |-> call.qty.n, item |-> call.item.s]
    /\ logs[1] # logs[2]

====
